---- MODULE Spec2Model ----
(***************************************************************************)
(* H5P Multi Media Choice: the selection and scoring engine of             *)
(* MultiMediaChoiceContent (h5p-multi-media-choice-content.js) over the    *)
(* option state of MultiMediaChoiceOption (h5p-multi-media-choice-option   *)
(* .js), the check / show solution / reset handlers of MultiMediaChoice     *)
(* (h5p-multi-media-choice.js) and the state and result serialisation of   *)
(* XAPIHandler (h5p-multi-mediachoice-xapi.js).                            *)
(*                                                                         *)
(* Options are indexed 0..n-1 as in the source.  The DOM attributes        *)
(* aria-checked, aria-disabled and tabindex of option i are the functions  *)
(* selected[i], disabled[i] and tabindex[i].                               *)
(***************************************************************************)
EXTENDS Integers, FiniteSets, Sequences, TLC

\* Bounds of the model
MaxOptions == 3
MaxInteracted == 3

\* Inputs
QuestionTypes == {"auto", "single", "multiple"}
PassPercentages == {0, 50, 51, 100}
Keys == {"Enter", " ", "ArrowLeft", "ArrowUp", "ArrowRight", "ArrowDown"}

\* lastSelectedRadioButtonOption = null
NoOption == -1

VARIABLES
  correct,                        \* option.correct, per option index
  questionType,                   \* params.behaviour.questionType
  singlePoint,                    \* params.behaviour.singlePoint
  passPercentage,                 \* params.behaviour.passPercentage
  numberOfCorrectOptions,         \* this.numberOfCorrectOptions
  isSingleAnswer,                 \* this.isSingleAnswer
  selected,                       \* aria-checked === 'true', per option
  disabled,                       \* aria-disabled === 'true', per option
  tabindex,                       \* tabindex attribute, per option
  lastSelectedRadioButtonOption,  \* index of the option, or NoOption
  decoration,                     \* solution classes, per option
  solutionText,                   \* screen reader solution spans
  buttons,                        \* whether each H5P.Question button is visible
  answered,                       \* the 'answered' event of this attempt, if any
  interacted,                     \* number of triggerInteracted() calls
  changed,                        \* number of toggles that changed the selection
  op,                             \* the operation that produced this state
  threw                           \* the last call ended with an exception

config == <<correct, questionType, singlePoint, passPercentage,
            numberOfCorrectOptions, isSingleAnswer>>
vars == <<correct, questionType, singlePoint, passPercentage,
          numberOfCorrectOptions, isSingleAnswer,
          selected, disabled, tabindex, lastSelectedRadioButtonOption,
          decoration, solutionText, buttons, answered, interacted, changed,
          op, threw>>

\* Indexes of this.options
Indexes == DOMAIN correct

----------------------------------------------------------------------------
\* MultiMediaChoiceOption

\* option.setTabIndex(tabIndex): -1 stays -1, anything else is 0
setTabIndex(tab, i, tabIndex) ==
  [tab EXCEPT ![i] = IF tabIndex = -1 THEN -1 ELSE 0]

\* option.toggle(): flips aria-checked
toggle(sel, i) == [sel EXCEPT ![i] = ~sel[i]]

\* option.uncheck()
uncheck(sel, i) == [sel EXCEPT ![i] = FALSE]

\* The solution decoration of an option is the set of the solution classes
\* on its wrapper.  The screen reader solution texts are the spans appended
\* to the wrappers: attached[i] says that the span
\* this.accessibilitySolutionText of option i refers to is a child of its
\* wrapper, stale that some wrapper has a span appended earlier that no
\* option refers to any more.

\* option.addAccessibilitySolutionText(text) on option i: a new span is
\* appended and this.accessibilitySolutionText refers to it; the span it
\* referred to stays where it is
addAccessibilitySolutionText(txt, i) ==
  [attached |-> [txt.attached EXCEPT ![i] = TRUE],
   stale |-> txt.stale \/ txt.attached[i]]

\* The span part of option.showSelectedSolution() on option i
showSelectedSolutionText(txt, i, isSelected) ==
  IF isSelected THEN addAccessibilitySolutionText(txt, i) ELSE txt

\* The span part of option.showUnselectedSolution() on option i
showUnselectedSolutionText(txt, i, isSelected) ==
  IF ~isSelected THEN addAccessibilitySolutionText(txt, i) ELSE txt

\* The span part of option.hideSolution() on option i: the span referred
\* to is removed from its parent, if it has one
hideSolutionText(txt, i) == [txt EXCEPT !.attached[i] = FALSE]

\* option.showSelectedSolution(), for an option with the given flags
showSelectedSolution(d, isSelected, isCorrect) ==
  IF isSelected
    THEN d \cup {IF isCorrect THEN "correct" ELSE "wrong"}
    ELSE d

\* option.showUnselectedSolution(), for an option with the given flags
showUnselectedSolution(d, isSelected, isCorrect) ==
  IF ~isSelected /\ isCorrect THEN d \cup {"show-correct"} ELSE d

\* option.hideSolution(): the three classes go
hideSolution(d) == d \ {"correct", "wrong", "show-correct"}

----------------------------------------------------------------------------
\* MultiMediaChoiceContent: selection

\* The mutable part of the content, as one value
Content ==
  [selected |-> selected, disabled |-> disabled, tabindex |-> tabindex,
   last |-> lastSelectedRadioButtonOption, interacted |-> interacted]

\* setTabIndexes(value = null); hasValue is value !== null
setTabIndexes(tab, hasValue, value) ==
  IF isSingleAnswer
    THEN LET all == [i \in DOMAIN tab |-> IF hasValue THEN value ELSE -1]
         IN  setTabIndex(all, 0, IF hasValue THEN value ELSE 0)
    ELSE [i \in DOMAIN tab |-> IF hasValue THEN value ELSE 0]

\* toggleSelected that leaves the previously checked radio button checked
toggleSelected_KeepsLast(c, optionIndex) ==
  IF c.disabled[optionIndex] THEN c
  ELSE IF isSingleAnswer /\ c.selected[optionIndex] THEN c
  ELSE LET c1 == IF isSingleAnswer
                   THEN [c EXCEPT
                           !.last = optionIndex,
                           !.tabindex = setTabIndex(c.tabindex, optionIndex, 0)]
                   ELSE c
       IN  [c1 EXCEPT !.selected = toggle(c1.selected, optionIndex),
                      !.interacted = c1.interacted + 1]

\* toggleSelected that does not look at isDisabled()
toggleSelected_IgnoresDisabled(c, optionIndex) ==
  IF isSingleAnswer /\ c.selected[optionIndex] THEN c
  ELSE LET c1 == IF isSingleAnswer
                   THEN LET unchecked ==
                              IF c.last # NoOption
                                THEN [c EXCEPT
                                        !.selected = uncheck(c.selected, c.last),
                                        !.tabindex = setTabIndex(c.tabindex, c.last, -1)]
                                ELSE c
                        IN  [unchecked EXCEPT
                               !.last = optionIndex,
                               !.tabindex = setTabIndex(unchecked.tabindex, optionIndex, 0)]
                   ELSE c
       IN  [c1 EXCEPT !.selected = toggle(c1.selected, optionIndex),
                      !.interacted = c1.interacted + 1]

\* toggleSelected that calls triggerInteracted() on the early returns too
toggleSelected_AlwaysInteracted(c, optionIndex) ==
  IF c.disabled[optionIndex] THEN [c EXCEPT !.interacted = c.interacted + 1]
  ELSE IF isSingleAnswer /\ c.selected[optionIndex]
    THEN [c EXCEPT !.interacted = c.interacted + 1]
  ELSE LET c1 == IF isSingleAnswer
                   THEN LET unchecked ==
                              IF c.last # NoOption
                                THEN [c EXCEPT
                                        !.selected = uncheck(c.selected, c.last),
                                        !.tabindex = setTabIndex(c.tabindex, c.last, -1)]
                                ELSE c
                        IN  [unchecked EXCEPT
                               !.last = optionIndex,
                               !.tabindex = setTabIndex(unchecked.tabindex, optionIndex, 0)]
                   ELSE c
       IN  [c1 EXCEPT !.selected = toggle(c1.selected, optionIndex),
                      !.interacted = c1.interacted + 1]

\* toggleSelected where a click on the selected radio button unchecks it
toggleSelected_RadioUnchecks(c, optionIndex) ==
  IF c.disabled[optionIndex] THEN c
  ELSE IF isSingleAnswer /\ c.selected[optionIndex]
    THEN [c EXCEPT !.selected = uncheck(c.selected, optionIndex),
                   !.last = NoOption,
                   !.interacted = c.interacted + 1]
  ELSE LET c1 == IF isSingleAnswer
                   THEN LET unchecked ==
                              IF c.last # NoOption
                                THEN [c EXCEPT
                                        !.selected = uncheck(c.selected, c.last),
                                        !.tabindex = setTabIndex(c.tabindex, c.last, -1)]
                                ELSE c
                        IN  [unchecked EXCEPT
                               !.last = optionIndex,
                               !.tabindex = setTabIndex(unchecked.tabindex, optionIndex, 0)]
                   ELSE c
       IN  [c1 EXCEPT !.selected = toggle(c1.selected, optionIndex),
                      !.interacted = c1.interacted + 1]

toggleSelected(c, optionIndex) ==
  IF c.disabled[optionIndex] THEN c
  ELSE IF isSingleAnswer /\ c.selected[optionIndex] THEN c
  ELSE LET c1 == IF isSingleAnswer
                   THEN LET unchecked ==
                              IF c.last # NoOption
                                THEN [c EXCEPT
                                        !.selected = uncheck(c.selected, c.last),
                                        !.tabindex = setTabIndex(c.tabindex, c.last, -1)]
                                ELSE c
                        IN  [unchecked EXCEPT
                               !.last = optionIndex,
                               !.tabindex = setTabIndex(unchecked.tabindex, optionIndex, 0)]
                   ELSE c
       IN  [c1 EXCEPT !.selected = toggle(c1.selected, optionIndex),
                      !.interacted = c1.interacted + 1]

\* resetSelections that leaves lastSelectedRadioButtonOption as it is
resetSelections_KeepsLast(c) ==
  [c EXCEPT !.tabindex = setTabIndexes(c.tabindex, FALSE, 0),
            !.selected = [i \in DOMAIN c.selected |-> FALSE],
            !.disabled = [i \in DOMAIN c.disabled |-> FALSE]]

resetSelections_KeepsDisabled(c) ==
  [c EXCEPT !.last = NoOption,
            !.tabindex = setTabIndexes(c.tabindex, FALSE, 0),
            !.selected = [i \in DOMAIN c.selected |-> FALSE]]

resetSelections(c) ==
  [c EXCEPT !.last = NoOption,
            !.tabindex = setTabIndexes(c.tabindex, FALSE, 0),
            !.selected = [i \in DOMAIN c.selected |-> FALSE],
            !.disabled = [i \in DOMAIN c.disabled |-> FALSE]]

disableSelectables_TabIndexOnly(c) ==
  [c EXCEPT !.tabindex = setTabIndexes([i \in DOMAIN c.tabindex |-> -1], TRUE, -1)]

disableSelectables(c) ==
  [c EXCEPT !.disabled = [i \in DOMAIN c.disabled |-> TRUE],
            !.tabindex = setTabIndexes([i \in DOMAIN c.tabindex |-> -1], TRUE, -1)]

\* const directions = { Right: 1, Down: 1, Left: -1, Up: -1 }
directions(direction) ==
  IF direction \in {"Right", "Down"} THEN 1 ELSE -1

handleOptionArrowKey(c, index, direction) ==
  IF direction \notin {"Left", "Right", "Up", "Down"} THEN c
  ELSE LET nextIndex == index + directions(direction)
       IN  IF nextIndex < 0 \/ nextIndex = Cardinality(DOMAIN c.selected) THEN c
           ELSE LET c1 == toggleSelected(c, nextIndex)
                IN  [c1 EXCEPT !.tabindex =
                       setTabIndex(setTabIndex(c1.tabindex, nextIndex, 0), index, -1)]

\* event.code.replace('Arrow', '')
ArrowDirection(key) ==
  CASE key = "ArrowLeft"  -> "Left"
    [] key = "ArrowUp"    -> "Up"
    [] key = "ArrowRight" -> "Right"
    [] key = "ArrowDown"  -> "Down"
    [] OTHER              -> key

\* The keydown listener of option i
keydown(c, i, key) ==
  IF key \in {"Enter", " "}
    THEN IF c.disabled[i] THEN c ELSE toggleSelected(c, i)
  ELSE IF key \in {"ArrowLeft", "ArrowUp", "ArrowRight", "ArrowDown"}
    THEN IF ~isSingleAnswer THEN c
         ELSE handleOptionArrowKey(c, i, ArrowDirection(key))
  ELSE c

----------------------------------------------------------------------------
\* MultiMediaChoiceContent: scoring

\* getSelectedOptions(), as the set of indexes of the selected options
getSelectedOptions == {i \in Indexes : selected[i]}

isAnyAnswerSelected == Cardinality(getSelectedOptions) > 0

isBlankCorrect == numberOfCorrectOptions = 0

\* getMaxScore without the isBlankCorrect() test
getMaxScore_NoBlankCorrect ==
  IF singlePoint \/ isSingleAnswer
    THEN 1
    ELSE numberOfCorrectOptions

getMaxScore ==
  IF singlePoint \/ isSingleAnswer \/ isBlankCorrect
    THEN 1
    ELSE numberOfCorrectOptions

\* The tally with score++ for every selected option
tally_CountsEverySelected ==
  Cardinality({i \in Indexes : selected[i]})

\* The tally of the forEach loop of getScore: +1 per selected correct
\* option, -1 per selected incorrect option, before Math.max
tally ==
  Cardinality({i \in Indexes : selected[i] /\ correct[i]})
    - Cardinality({i \in Indexes : selected[i] /\ ~correct[i]})

\* The tally without the Math.max clamp
MathMax0_NoClamp(x) == x

\* Math.max(0, x)
MathMax0(x) == IF x > 0 THEN x ELSE 0

\* The comparison with > in place of >=
QuotientAtLeast_Strict(a, b, p) ==
  IF b = 0 THEN a > 0 ELSE a > p * b

\* The JavaScript comparison  a / b >= p  for integers a >= 0, b >= 0 and
\* p >= 0: the quotient is a double, so for b > 0 it holds iff a >= p * b;
\* a / 0 is Infinity for a > 0 (true) and NaN for a = 0 (false).
QuotientAtLeast(a, b, p) ==
  IF b = 0 THEN a > 0 ELSE a >= p * b

\* What getScore returns when lastSelectedRadioButtonOption is null at the
\* isCorrect() call: a TypeError, no score
TypeError == -1

\* getScore whose no-selection branch forgets the blank-correct point
getScore_NoBlankPoint ==
  IF singlePoint /\ passPercentage = 0 THEN 1
  ELSE IF ~isAnyAnswerSelected THEN 0
  ELSE IF isSingleAnswer
    THEN IF lastSelectedRadioButtonOption = NoOption THEN TypeError
         ELSE IF correct[lastSelectedRadioButtonOption] THEN 1 ELSE 0
  ELSE LET score == MathMax0(tally)
       IN  IF singlePoint
             THEN IF QuotientAtLeast(score * 100, numberOfCorrectOptions, passPercentage)
                    THEN 1 ELSE 0
             ELSE score

\* getScore without the radio button branch: every mode takes the tally
getScore_NoRadioBranch ==
  IF singlePoint /\ passPercentage = 0 THEN 1
  ELSE IF ~isAnyAnswerSelected THEN (IF isBlankCorrect THEN 1 ELSE 0)
  ELSE LET score == MathMax0(tally)
       IN  IF singlePoint
             THEN IF QuotientAtLeast(score * 100, numberOfCorrectOptions, passPercentage)
                    THEN 1 ELSE 0
             ELSE score

getScore ==
  IF singlePoint /\ passPercentage = 0 THEN 1
  ELSE IF ~isAnyAnswerSelected THEN (IF isBlankCorrect THEN 1 ELSE 0)
  ELSE IF isSingleAnswer
    THEN IF lastSelectedRadioButtonOption = NoOption THEN TypeError
         ELSE IF correct[lastSelectedRadioButtonOption] THEN 1 ELSE 0
  ELSE LET score == MathMax0(tally)
       IN  IF singlePoint
             THEN IF QuotientAtLeast(score * 100, numberOfCorrectOptions, passPercentage)
                    THEN 1 ELSE 0
             ELSE score

\* The return statement with the blank-correct test ahead of the selection
getScoreReturn_BlankFirst ==
  IF singlePoint /\ passPercentage = 0 THEN "passZero"
  ELSE IF isBlankCorrect \/ ~isAnyAnswerSelected THEN "blank"
  ELSE IF isSingleAnswer THEN "radio"
  ELSE IF singlePoint THEN "percentage"
  ELSE "tally"

\* The return statement of getScore that a call leaves through: the one of
\* the passPercentage 0 test, of the no-selection test, of the radio button
\* test, the singlePoint one that divides by numberOfCorrectOptions, or
\* the last one
getScoreReturn ==
  IF singlePoint /\ passPercentage = 0 THEN "passZero"
  ELSE IF ~isAnyAnswerSelected THEN "blank"
  ELSE IF isSingleAnswer THEN "radio"
  ELSE IF singlePoint THEN "percentage"
  ELSE "tally"

isPassed == QuotientAtLeast(getScore * 100, getMaxScore, passPercentage)

\* The success flag computed with > in place of >=
xAPISuccess_Strict ==
  LET maxScore == getMaxScore
      score == getScore
  IN  100 * score > passPercentage * maxScore

\* XAPIHandler.addResponseToXAPI: the success flag of the scored result
xAPISuccess ==
  LET maxScore == getMaxScore
      score == getScore
  IN  QuotientAtLeast(100 * score, maxScore, passPercentage)

----------------------------------------------------------------------------
\* MultiMediaChoiceContent: solutions

showSelectedSolutions(dec, sel) ==
  [i \in DOMAIN dec |-> showSelectedSolution(dec[i], sel[i], correct[i])]

showUnselectedSolutions(dec, sel) ==
  [i \in DOMAIN dec |-> showUnselectedSolution(dec[i], sel[i], correct[i])]

hideSolutions(dec) ==
  [i \in DOMAIN dec |-> hideSolution(dec[i])]

\* The same three loops on the spans, from option i on
RECURSIVE showSelectedSolutionTexts(_, _, _)
showSelectedSolutionTexts(txt, sel, i) ==
  IF i \notin DOMAIN sel THEN txt
  ELSE showSelectedSolutionTexts(showSelectedSolutionText(txt, i, sel[i]),
                                 sel, i + 1)

RECURSIVE showUnselectedSolutionTexts(_, _, _)
showUnselectedSolutionTexts(txt, sel, i) ==
  IF i \notin DOMAIN sel THEN txt
  ELSE showUnselectedSolutionTexts(showUnselectedSolutionText(txt, i, sel[i]),
                                   sel, i + 1)

RECURSIVE hideSolutionTexts(_, _)
hideSolutionTexts(txt, i) ==
  IF i \notin DOMAIN txt.attached THEN txt
  ELSE hideSolutionTexts(hideSolutionText(txt, i), i + 1)

----------------------------------------------------------------------------
\* MultiMediaChoice: the buttons it has H5P.Question show and hide

ButtonIds == {"check-answer", "show-solution", "try-again"}

\* this.showButton(id) and this.hideButton(id)
showButton(b, id) == [b EXCEPT ![id] = TRUE]
hideButton(b, id) == [b EXCEPT ![id] = FALSE]

\* addButtons(): check-answer is added visible, the other two hidden
addButtons == [id \in ButtonIds |-> id = "check-answer"]

\* The buttons part of checkAnswer() that shows try-again after every check
checkAnswerButtons_AlwaysRetry(b, enableSolutionsButton, enableRetry, score, maxScore) ==
  LET b1 == IF enableSolutionsButton /\ score # maxScore
              THEN showButton(b, "show-solution") ELSE b
  IN  hideButton(showButton(b1, "try-again"), "check-answer")

\* The buttons part of checkAnswer(), for the given settings of
\* params.behaviour and the score and maximum the handler read
checkAnswerButtons(b, enableSolutionsButton, enableRetry, score, maxScore) ==
  LET b1 == IF enableSolutionsButton /\ score # maxScore
              THEN showButton(b, "show-solution") ELSE b
      b2 == IF enableRetry /\ score # maxScore
              THEN showButton(b1, "try-again") ELSE b1
  IN  hideButton(b2, "check-answer")

\* The buttons part of showSolutions()
showSolutionsButtons(b) ==
  hideButton(hideButton(b, "check-answer"), "show-solution")

\* The buttons part of resetTask()
resetTaskButtons(b) ==
  hideButton(hideButton(showButton(b, "check-answer"), "try-again"),
             "show-solution")

----------------------------------------------------------------------------
\* XAPIHandler: saved state and result.  A JavaScript string is the
\* sequence of its characters; a value carries its type.

JsString(chars) == [string |-> chars]
JsArray(items) == [array |-> items]

\* The decimal digit d as a character
Digit(d) == <<"0", "1", "2", "3", "4", "5", "6", "7", "8", "9">>[d + 1]

\* String(n) of an array index n >= 0
RECURSIVE NumberToString(_)
NumberToString(n) ==
  IF n < 10 THEN <<Digit(n)>>
  ELSE NumberToString(n \div 10) \o <<Digit(n % 10)>>

\* The options from index i on that are selected, in option order
RECURSIVE filterSelected(_, _)
filterSelected(sel, i) ==
  IF i \notin DOMAIN sel THEN << >>
  ELSE (IF sel[i] THEN <<i>> ELSE << >>) \o filterSelected(sel, i + 1)

\* content.getSelectedIndexes()
getSelectedIndexes == filterSelected(selected, 0)

\* Array.prototype.toString(): the elements joined by ","
RECURSIVE ArrayToString(_)
ArrayToString(a) ==
  IF a = << >> THEN << >>
  ELSE IF Len(a) = 1 THEN NumberToString(a[1])
  ELSE NumberToString(a[1]) \o <<",">> \o ArrayToString(Tail(a))

getCurrentState_FirstOnly ==
  [answers |-> JsString(IF getSelectedIndexes = << >>
                          THEN << >>
                          ELSE NumberToString(getSelectedIndexes[1]))]

\* XAPIHandler.getCurrentState()
getCurrentState ==
  [answers |-> JsString(ArrayToString(getSelectedIndexes))]

\* The loop of addResponseToXAPI from position i on, response so far
RECURSIVE responseLoop(_, _, _)
responseLoop(selectedIndexes, i, response) ==
  IF i > Len(selectedIndexes) THEN response
  ELSE LET separated == IF response # << >>
                          THEN response \o <<"[", ",", "]">>
                          ELSE response
       IN  responseLoop(selectedIndexes, i + 1,
                        separated \o NumberToString(selectedIndexes[i]))

xAPIResponse_CommaJoined == ArrayToString(getSelectedIndexes)

\* xAPIEvent.data.statement.result.response
xAPIResponse == responseLoop(getSelectedIndexes, 1, << >>)

\* The scored result of the 'answered' event
getAnsweredXAPIEvent ==
  [score |-> getScore, maxScore |-> getMaxScore, success |-> xAPISuccess,
   response |-> xAPIResponse]

----------------------------------------------------------------------------
\* The state machine

\* The constructor throws in setTabIndexes when there is no options[0]
ConstructorThrows(single, n) == single /\ n = 0

\* The mode with 'auto' resolved as "at least one correct option"
resolveSingleAnswer_AtLeastOne(qt, nc) ==
  IF qt = "auto" THEN nc >= 1 ELSE qt = "single"

\* this.isSingleAnswer, as the constructor resolves it
resolveSingleAnswer(qt, nc) ==
  IF qt = "auto" THEN nc = 1 ELSE qt = "single"

\* An option without solution class or text
NoDecoration == {}

\* No solution span anywhere, for n options
NoSolutionText(n) ==
  [attached |-> [i \in 0..(n - 1) |-> FALSE], stale |-> FALSE]

Init ==
  \E n \in 0..MaxOptions :
    \E cs \in [0..(n - 1) -> BOOLEAN] :
      \E qt \in QuestionTypes, sp \in BOOLEAN, pp \in PassPercentages :
        LET nc == Cardinality({i \in 0..(n - 1) : cs[i]})
            single == resolveSingleAnswer(qt, nc)
        IN  /\ correct = cs
            /\ decoration = [i \in 0..(n - 1) |-> NoDecoration]
            /\ solutionText = NoSolutionText(n)
            /\ buttons = addButtons
            /\ answered = << >>
            /\ questionType = qt
            /\ singlePoint = sp
            /\ passPercentage = pp
            /\ numberOfCorrectOptions = nc
            /\ isSingleAnswer = single
            /\ lastSelectedRadioButtonOption = NoOption
            /\ selected = [i \in 0..(n - 1) |-> FALSE]
            /\ disabled = [i \in 0..(n - 1) |-> FALSE]
            \* this.setTabIndexes(): radio buttons -1 except options[0], checkboxes 0
            /\ tabindex = [i \in 0..(n - 1) |-> IF single /\ i # 0 THEN -1 ELSE 0]
            /\ interacted = 0
            /\ changed = 0
            /\ op = "constructor"
            /\ threw = ConstructorThrows(single, n)

\* An instance exists only if its constructor returned
Constructed == ~ConstructorThrows(isSingleAnswer, Cardinality(Indexes))

\* Install the content c as the next state, produced by operation name
Becomes(c, name) ==
  /\ selected' = c.selected
  /\ disabled' = c.disabled
  /\ tabindex' = c.tabindex
  /\ lastSelectedRadioButtonOption' = c.last
  /\ interacted' = c.interacted
  /\ op' = name
  /\ threw' = FALSE
  /\ UNCHANGED config

\* A call of toggleSelected(i): the click listener of option i
ToggleSelected ==
  \E i \in Indexes :
    LET c == toggleSelected(Content, i)
    IN  /\ Constructed
        /\ interacted < MaxInteracted
        /\ Becomes(c, "toggleSelected")
        /\ changed' = changed + (IF c.selected # selected THEN 1 ELSE 0)
        /\ UNCHANGED <<decoration, solutionText, buttons, answered>>

\* A keydown event on option i
KeyDown ==
  \E i \in Indexes, key \in Keys :
    LET c == keydown(Content, i, key)
    IN  /\ Constructed
        /\ interacted < MaxInteracted
        /\ Becomes(c, "keydown")
        /\ changed' = changed + (IF c.selected # selected THEN 1 ELSE 0)
        /\ UNCHANGED <<decoration, solutionText, buttons, answered>>

DisableSelectables ==
  /\ Constructed
  /\ Becomes(disableSelectables(Content), "disableSelectables")
  /\ UNCHANGED <<decoration, solutionText, buttons, answered, changed>>

ResetSelections ==
  /\ Constructed
  /\ Becomes(resetSelections(Content), "resetSelections")
  /\ UNCHANGED <<decoration, solutionText, buttons, answered, changed>>

\* this.options[optionIndex] is undefined outside 0..options.length-1, and
\* toggleSelected calls isDisabled() on it
toggleSelectedThrows(c, optionIndex) == optionIndex \notin DOMAIN c.selected

\* A call of toggleSelected(i) with i = -1 or i = options.length: the
\* TypeError leaves the call before any assignment
ToggleSelectedOutOfRange ==
  \E i \in {-1, Cardinality(Indexes)} :
    /\ Constructed
    /\ toggleSelectedThrows(Content, i)
    /\ op' = "toggleSelectedOutOfRange"
    /\ threw' = TRUE
    /\ UNCHANGED <<config, selected, disabled, tabindex,
                   lastSelectedRadioButtonOption, decoration, solutionText,
                   buttons, answered,
                   interacted, changed>>

GetScore_Unchecks ==
  /\ Constructed
  /\ Becomes([Content EXCEPT !.selected = [i \in Indexes |-> FALSE]], "getScore")
  /\ UNCHANGED <<decoration, solutionText, buttons, answered, changed>>

\* A call of getScore(): no field or attribute is written
GetScore ==
  /\ Constructed
  /\ Becomes(Content, "getScore")
  /\ UNCHANGED <<decoration, solutionText, buttons, answered, changed>>

\* A call of getCurrentState(): no field or attribute is written
GetCurrentState ==
  /\ Constructed
  /\ Becomes(Content, "getCurrentState")
  /\ UNCHANGED <<decoration, solutionText, buttons, answered, changed>>

\* The content as its constructor leaves it.  previousState, the saved
\* state the host passes in extras, is kept in this.extras of the widget
\* and read by no constructor.
construct(c, previousState) ==
  [c EXCEPT !.last = NoOption,
            !.selected = [i \in DOMAIN c.selected |-> FALSE],
            !.disabled = [i \in DOMAIN c.disabled |-> FALSE],
            !.tabindex = setTabIndexes(c.tabindex, FALSE, 0)]

\* The host saves getCurrentState() and constructs a new instance of the
\* same content with it as extras.previousState
Resume ==
  /\ Constructed
  /\ Becomes(construct(Content, getCurrentState), "constructor")
  /\ decoration' = [i \in Indexes |-> NoDecoration]
  /\ solutionText' = NoSolutionText(Cardinality(Indexes))
  /\ buttons' = addButtons
  /\ answered' = << >>
  /\ UNCHANGED changed

\* checkAnswer(), with the values params.behaviour.enableSolutionsButton
\* and enableRetry have at the call: the options are disabled, the buttons
\* set, the selected options marked and the 'answered' event triggered
CheckAnswer ==
  /\ Constructed
  /\ Becomes(disableSelectables(Content), "checkAnswer")
  /\ decoration' = showSelectedSolutions(decoration, selected')
  /\ solutionText' = showSelectedSolutionTexts(solutionText, selected', 0)
  /\ answered' = <<getAnsweredXAPIEvent'>>
  /\ UNCHANGED changed
  /\ LET score == getScore'
         maxScore == getMaxScore'
     IN  \E enableSolutionsButton \in BOOLEAN, enableRetry \in BOOLEAN :
           buttons' = checkAnswerButtons(buttons, enableSolutionsButton,
                                         enableRetry, score, maxScore)

ShowSolutions_DisablesFirst ==
  /\ Constructed
  /\ Becomes(disableSelectables(Content), "showSolutions")
  /\ decoration' = showUnselectedSolutions(decoration, selected)
  /\ solutionText' = showUnselectedSolutionTexts(solutionText, selected, 0)
  /\ buttons' = showSolutionsButtons(buttons)
  /\ UNCHANGED <<answered, changed>>

\* showSolutions(), with the value params.behaviour.showSolutionsRequiresInput
\* has at the call
ShowSolutions ==
  \E showSolutionsRequiresInput \in BOOLEAN :
    /\ Constructed
    /\ Becomes(Content, "showSolutions")
    /\ decoration' = IF showSolutionsRequiresInput /\ ~isAnyAnswerSelected
                       THEN decoration
                       ELSE showUnselectedSolutions(decoration, selected)
    /\ solutionText' = IF showSolutionsRequiresInput /\ ~isAnyAnswerSelected
                         THEN solutionText
                         ELSE showUnselectedSolutionTexts(solutionText, selected, 0)
    /\ buttons' = showSolutionsButtons(buttons)
    /\ UNCHANGED <<answered, changed>>

\* content.hideSolutions()
HideSolutions ==
  /\ Constructed
  /\ Becomes(Content, "hideSolutions")
  /\ decoration' = hideSolutions(decoration)
  /\ solutionText' = hideSolutionTexts(solutionText, 0)
  /\ UNCHANGED <<buttons, answered, changed>>

\* resetTask()
ResetTask ==
  /\ Constructed
  /\ Becomes(resetSelections(Content), "resetTask")
  /\ buttons' = resetTaskButtons(buttons)
  /\ decoration' = hideSolutions(decoration)
  /\ solutionText' = hideSolutionTexts(solutionText, 0)
  /\ answered' = << >>
  /\ UNCHANGED changed

Next ==
  \/ ToggleSelected
  \/ KeyDown
  \/ DisableSelectables
  \/ ResetSelections
  \/ ToggleSelectedOutOfRange
  \/ GetScore
  \/ GetCurrentState
  \/ Resume

Spec == Init /\ [][Next]_vars

\* The widget as the host and the user drive it: clicks on the options,
\* and the check, show solution and retry handlers
NextWidget ==
  \/ ToggleSelected
  \/ CheckAnswer
  \/ ShowSolutions
  \/ HideSolutions
  \/ ResetTask

SpecWidget == Init /\ [][NextWidget]_vars

----------------------------------------------------------------------------
\* Properties

\* The number of authored-correct options, counted from the options
AuthoredCorrect == Cardinality({i \in Indexes : correct[i]})

\* The options the learner has selected, split by their authored flag
SelectedCorrect == Cardinality({i \in Indexes : selected[i] /\ correct[i]})
SelectedIncorrect == Cardinality({i \in Indexes : selected[i] /\ ~correct[i]})
Raw ==
  IF SelectedCorrect > SelectedIncorrect
    THEN SelectedCorrect - SelectedIncorrect
    ELSE 0

NothingSelected == \A i \in Indexes : ~selected[i]

\* Every option is disabled: the state between disableSelectables() and
\* the next resetSelections()
AllDisabled == Indexes # {} /\ \A i \in Indexes : disabled[i]

\* C1: in SingleAnswer mode at most one option is selected in every
\* reachable state, whatever toggles, arrow keys, disables and resets ran.
C1_SingleAnswerExclusive ==
  isSingleAnswer => Cardinality({i \in Indexes : selected[i]}) <= 1

\* A radio selection that replaced an earlier one through an arrow key
C1_Witness ==
  /\ isSingleAnswer
  /\ op = "keydown"
  /\ interacted >= 2
  /\ Cardinality({i \in Indexes : selected[i]}) = 1

\* C2: while every option is disabled, a toggleSelected(i), called directly
\* or from a key handler, leaves the selected options and
\* lastSelectedRadioButtonOption unchanged, in either mode.
C2_DisabledToggleNoOp ==
  [][(AllDisabled /\ op' \in {"toggleSelected", "keydown"})
       => /\ selected' = selected
          /\ lastSelectedRadioButtonOption' = lastSelectedRadioButtonOption]_vars

\* A toggle that arrived on a disabled option while a selection existed
C2_Witness ==
  /\ AllDisabled
  /\ op = "toggleSelected"
  /\ ~NothingSelected

\* C3: the number of 'interacted' notifications equals the number of
\* toggles that changed the selection: one per change, none for a no-op.
C3_InteractedOncePerChange == interacted = changed

\* A no-op toggle on a disabled option after a toggle that took effect
C3_Witness ==
  /\ AllDisabled
  /\ op = "toggleSelected"
  /\ interacted >= 1

\* C4 as stated: with no option selected, getScore() is 1 if zero options
\* are authored correct and 0 otherwise, for every configuration.
C4_Original ==
  NothingSelected => getScore = (IF AuthoredCorrect = 0 THEN 1 ELSE 0)

\* C4, amended: with no option selected, getScore() is 1 if zero options
\* are authored correct or singlePoint is configured with passPercentage 0,
\* and 0 otherwise.
C4_NoSelectionScore ==
  NothingSelected =>
    getScore = (IF AuthoredCorrect = 0 \/ (singlePoint /\ passPercentage = 0)
                  THEN 1 ELSE 0)

\* An emptied selection of a blank-correct question
C4_Witness ==
  /\ NothingSelected
  /\ op = "resetSelections"
  /\ interacted >= 1
  /\ Indexes # {}
  /\ AuthoredCorrect = 0
  /\ ~singlePoint

\* C5 as stated: in SingleAnswer mode with one option selected, getScore()
\* is 1 if that option is authored correct and 0 otherwise, for every
\* singlePoint and passPercentage.
C5_Original ==
  \A i \in Indexes :
    (isSingleAnswer /\ {j \in Indexes : selected[j]} = {i})
      => getScore = (IF correct[i] THEN 1 ELSE 0)

\* C5, amended: in SingleAnswer mode with one option selected, that option
\* is lastSelectedRadioButtonOption and getScore() is 1 if it is authored
\* correct or singlePoint is configured with passPercentage 0, and 0
\* otherwise.
C5_SingleAnswerScore ==
  \A i \in Indexes :
    (isSingleAnswer /\ {j \in Indexes : selected[j]} = {i})
      => /\ lastSelectedRadioButtonOption = i
         /\ getScore = (IF correct[i] \/ (singlePoint /\ passPercentage = 0)
                          THEN 1 ELSE 0)

\* A correct radio button chosen under singlePoint with a pass percentage
\* one correct option out of several would not reach
C5_Witness ==
  /\ isSingleAnswer
  /\ singlePoint
  /\ passPercentage = 100
  /\ AuthoredCorrect >= 2
  /\ \E i \in Indexes : correct[i] /\ {j \in Indexes : selected[j]} = {i}

\* C6: in MultiAnswer mode without singlePoint and with a selection,
\* getScore() is max(0, selected correct - selected incorrect): never
\* negative, not capped at 1.
C6_MultiAnswerRawScore ==
  (~isSingleAnswer /\ ~singlePoint /\ ~NothingSelected)
    => /\ getScore = Raw
       /\ getScore >= 0

\* Two correct options selected: a score above 1
C6_Witness ==
  /\ ~isSingleAnswer
  /\ ~singlePoint
  /\ SelectedCorrect >= 2
  /\ SelectedIncorrect = 0
  /\ getScore >= 2

\* C7: in MultiAnswer mode with singlePoint, a selection and at least one
\* authored-correct option, getScore() is 1 exactly when
\* raw * 100 / numberOfCorrectOptions >= passPercentage, else 0.
C7_SinglePointThreshold ==
  (~isSingleAnswer /\ singlePoint /\ ~NothingSelected /\ AuthoredCorrect >= 1)
    => getScore = (IF Raw * 100 >= passPercentage * AuthoredCorrect THEN 1 ELSE 0)

\* Scenario D: 3 options, 2 correct, passPercentage 50, one correct option
\* selected: exactly on the threshold
C7_Witness ==
  /\ ~isSingleAnswer
  /\ singlePoint
  /\ Cardinality(Indexes) = 3
  /\ AuthoredCorrect = 2
  /\ passPercentage = 50
  /\ SelectedCorrect = 1
  /\ SelectedIncorrect = 0
  /\ getScore = 1

\* C8: getMaxScore() is 1 if singlePoint is configured, the mode is
\* SingleAnswer or zero options are authored correct, and the number of
\* authored-correct options otherwise, whatever the selection.
C8_MaxScore ==
  getMaxScore = (IF singlePoint \/ isSingleAnswer \/ AuthoredCorrect = 0
                   THEN 1 ELSE AuthoredCorrect)

\* A blank-correct MultiAnswer question without singlePoint, with a selection
C8_Witness ==
  /\ ~singlePoint
  /\ ~isSingleAnswer
  /\ AuthoredCorrect = 0
  /\ ~NothingSelected
  /\ getMaxScore = 1

\* C9: getScore() <= getMaxScore() in every reachable state.
C9_ScoreAtMostMax == getScore <= getMaxScore

\* Every correct option selected next to nothing else: the score reaches
\* a maximum above 1
C9_Witness ==
  /\ getMaxScore >= 2
  /\ getScore = getMaxScore
  /\ SelectedIncorrect = 0

\* C10: isPassed() is true exactly when
\* getScore() * 100 / getMaxScore() >= passPercentage, and the xAPI success
\* flag is the same value.
C10_PassedIsSuccess ==
  /\ isPassed <=> (getScore * 100 >= passPercentage * getMaxScore)
  /\ xAPISuccess <=> isPassed

\* Half of the maximum with passPercentage 50: passed on the threshold
C10_Witness ==
  /\ passPercentage = 50
  /\ getMaxScore = 2
  /\ getScore = 1
  /\ isPassed
  /\ xAPISuccess

\* C11: the mode is the one resolved at construction - SingleAnswer for
\* 'auto' exactly when one option is authored correct, SingleAnswer for
\* 'single', MultiAnswer otherwise - and no toggle, key, check, show
\* solution, hide solution or reset changes the mode or a correct flag.
C11_ModeFixedAtConstruction ==
  /\ [](isSingleAnswer = (IF questionType = "auto"
                            THEN AuthoredCorrect = 1
                            ELSE questionType = "single"))
  /\ [][isSingleAnswer' = isSingleAnswer /\ correct' = correct]_vars

\* An 'auto' question with one correct option among several, after a
\* selection, a check and a reset
C11_Witness ==
  /\ questionType = "auto"
  /\ AuthoredCorrect = 1
  /\ Cardinality(Indexes) >= 2
  /\ isSingleAnswer
  /\ op = "resetTask"
  /\ interacted >= 1

\* The state a reset leaves: called on the content or through resetTask()
AfterReset == op \in {"resetSelections", "resetTask"}

\* C12: after a reset no option is selected,
\* lastSelectedRadioButtonOption is null and every option is enabled, and
\* a toggleSelected(i) that follows changes the selection and notifies.
C12_ResetEnablesToggle ==
  /\ [](AfterReset => /\ NothingSelected
                      /\ lastSelectedRadioButtonOption = NoOption
                      /\ \A i \in Indexes : ~disabled[i])
  /\ [][(AfterReset /\ op' = "toggleSelected")
         => /\ selected' # selected
            /\ interacted' = interacted + 1]_vars

\* A retry of a question that had been answered
C12_Witness ==
  /\ op = "resetTask"
  /\ Indexes # {}
  /\ interacted >= 1
  /\ interacted < MaxInteracted

\* The attempt has been checked and not reset since
Graded == answered # << >>

\* C13: from checkAnswer() until resetTask() every option is disabled,
\* through toggles, keys, showSolutions() and hideSolutions(), so the
\* score and the response of the 'answered' event are those of the
\* current selection.
C13_CheckFreezesAnswer ==
  Graded => /\ \A i \in Indexes : disabled[i]
            /\ answered[1].score = getScore
            /\ answered[1].maxScore = getMaxScore
            /\ answered[1].response = xAPIResponse

\* A click on an option of a checked attempt that scored
C13_Witness ==
  /\ Graded
  /\ op = "toggleSelected"
  /\ Cardinality(Indexes) >= 2
  /\ answered[1].score >= 1
  /\ answered[1].response # << >>

\* C14: showSolutions() and hideSolutions() change the solution classes
\* only: which options are selected and which are disabled is the same
\* after the call as before.
C14_SolutionsKeepSelection ==
  [][op' \in {"showSolutions", "hideSolutions"}
       => /\ selected' = selected
          /\ disabled' = disabled
          /\ lastSelectedRadioButtonOption' = lastSelectedRadioButtonOption]_vars

\* The unselected correct options marked while the options are enabled
\* and one is selected
C14_Witness ==
  /\ op = "showSolutions"
  /\ ~NothingSelected
  /\ \E i \in Indexes : ~disabled[i] /\ "show-correct" \in decoration[i]

\* C15 as stated: a toggleSelected(i) with i outside the options is a
\* no-op: no exception, no change of the selection or of
\* lastSelectedRadioButtonOption, no 'interacted' notification.
C15_OutOfRangeNoOp ==
  [][op' = "toggleSelectedOutOfRange"
       => /\ ~threw'
          /\ selected' = selected
          /\ disabled' = disabled
          /\ lastSelectedRadioButtonOption' = lastSelectedRadioButtonOption
          /\ interacted' = interacted]_vars

\* C16 as stated: with zero authored options, for every questionType, the
\* constructor and every later operation on the options complete without
\* an exception, getMaxScore() is 1 and getScore() is 0 or 1.
C16_ZeroOptionsComplete ==
  (Indexes = {} /\ op # "toggleSelectedOutOfRange")
    => /\ ~threw
       /\ getMaxScore = 1
       /\ getScore \in {0, 1}

\* Reading a serialised index list back.  s.split(sep): the pieces of s
\* between the occurrences of sep, one piece if there is none
StartsWith(s, prefix) ==
  Len(s) >= Len(prefix) /\ SubSeq(s, 1, Len(prefix)) = prefix

RECURSIVE Split(_, _)
Split(s, sep) ==
  LET cut == {k \in 1..Len(s) : StartsWith(SubSeq(s, k, Len(s)), sep)}
  IN  IF cut = {} THEN <<s>>
      ELSE LET k == CHOOSE c \in cut : \A j \in cut : c <= j
           IN  <<SubSeq(s, 1, k - 1)>>
                 \o Split(SubSeq(s, k + Len(sep), Len(s)), sep)

Digits == {Digit(d) : d \in 0..9}

\* A decimal numeral without sign or leading zero
IsNumeral(chars) ==
  /\ chars # << >>
  /\ \A k \in 1..Len(chars) : chars[k] \in Digits
  /\ Len(chars) > 1 => chars[1] # "0"

RECURSIVE ParseInt(_)
ParseInt(chars) ==
  LET last == CHOOSE d \in 0..9 : Digit(d) = chars[Len(chars)]
  IN  IF Len(chars) = 1 THEN last
      ELSE 10 * ParseInt(SubSeq(chars, 1, Len(chars) - 1)) + last

\* chars is the indexes of the selected options, each once and in option
\* order, as numerals with sep between one and the next and nowhere else;
\* the empty string if nothing is selected
EncodesSelection(chars, sep) ==
  IF NothingSelected THEN chars = << >>
  ELSE LET pieces == Split(chars, sep)
       IN  /\ \A k \in 1..Len(pieces) : IsNumeral(pieces[k])
           /\ \A k \in 1..(Len(pieces) - 1) :
                ParseInt(pieces[k]) < ParseInt(pieces[k + 1])
           /\ {ParseInt(pieces[k]) : k \in 1..Len(pieces)}
                = {i \in Indexes : selected[i]}

C18_RoundTrip ==
  [][op' = "constructor"
       => /\ ~isSingleAnswer => selected' = selected
          /\ isSingleAnswer =>
                {i \in Indexes : selected'[i]}
                  = (IF getSelectedIndexes = << >> THEN {}
                     ELSE {getSelectedIndexes[Len(getSelectedIndexes)]})
          /\ interacted' = interacted]_vars

\* C19: the xAPI response is the indexes of the selected options in
\* option order with "[,]" between one and the next and nowhere else: the
\* empty string for no selection, the index alone for one.
C19_ResponseSeparator == EncodesSelection(xAPIResponse, <<"[", ",", "]">>)

\* The last two of three options selected
C19_Witness ==
  /\ {i \in Indexes : selected[i]} = {1, 2}
  /\ xAPIResponse = <<"1", "[", ",", "]", "2">>

\* C20: a call of getScore() leaves the selection, the disabled flags and
\* lastSelectedRadioButtonOption as they were, so the next call returns
\* the same value.
C20_GetScorePure ==
  [][op' = "getScore"
       => /\ UNCHANGED <<selected, disabled, tabindex,
                         lastSelectedRadioButtonOption, interacted>>
          /\ getScore' = getScore]_vars

\* getScore() called on a selection that scores
C20_Witness ==
  /\ op = "getScore"
  /\ ~NothingSelected
  /\ getScore >= 1

\* C21 as stated: getScore() never reaches the singlePoint division with
\* numberOfCorrectOptions = 0.
C21_Original ==
  ~(getScoreReturn = "percentage" /\ numberOfCorrectOptions = 0)

\* C21, amended: for a question with zero authored-correct options the
\* no-selection branch decides getScore() only while nothing is selected;
\* in MultiAnswer mode with singlePoint, a passPercentage other than 0 and
\* an option selected, the division by numberOfCorrectOptions = 0 is
\* evaluated, and getScore() is 0.
C21_ZeroDenominator ==
  AuthoredCorrect = 0 =>
    /\ getScoreReturn = "percentage"
         <=> (~isSingleAnswer /\ singlePoint /\ passPercentage # 0
                /\ ~NothingSelected)
    /\ getScoreReturn = "percentage" => getScore = 0
    /\ (NothingSelected /\ ~(singlePoint /\ passPercentage = 0))
         => (getScoreReturn = "blank" /\ getScore = 1)

\* An option selected in a singlePoint question without a correct option
C21_Witness ==
  /\ AuthoredCorrect = 0
  /\ singlePoint
  /\ passPercentage = 50
  /\ ~isSingleAnswer
  /\ ~NothingSelected
  /\ getScoreReturn = "percentage"

\* Option i carries a solution class or a solution text
Decorated(i) == decoration[i] # {} \/ solutionText.attached[i]

\* C22 as stated: after resetTask(), whatever calls of checkAnswer() and
\* showSolutions() came before, no option carries a correct, wrong or
\* show-correct class or a screen reader solution text.
C22_ResetClearsSolutions ==
  op = "resetTask"
    => /\ \A i \in Indexes : ~Decorated(i)
       /\ ~solutionText.stale

\* A call on the instance, as opposed to the construction of a new one
SameInstance == op' # "constructor"

\* C23 as stated: no operation changes the selected flag of an option
\* that is disabled at that moment.
C23_Original ==
  [][SameInstance
       => \A i \in Indexes : disabled[i] => selected'[i] = selected[i]]_vars

\* C23, amended: toggleSelected and the key handlers never change the
\* selected flag of a disabled option; resetSelections does, unchecking a
\* disabled option before it enables it.
C23_SelectedChangesWhileEnabled ==
  [][SameInstance
       => \A i \in Indexes :
            (disabled[i] /\ selected'[i] # selected[i])
              => /\ op' = "resetSelections"
                 /\ ~selected'[i]
                 /\ ~disabled'[i]]_vars

\* An arrow key on the disabled options of a selection of two
C23_Witness ==
  /\ AllDisabled
  /\ op = "keydown"
  /\ Cardinality({i \in Indexes : selected[i]}) = 2

\* The Answering state: there are options and they are enabled
Answering == Indexes # {} /\ \A i \in Indexes : ~disabled[i]

\* C24 as stated: while the options are enabled no option carries a
\* correct, wrong or show-correct class or a solution text, whatever order
\* checkAnswer(), showSolutions() and resetTask() were called in.
C24_NoDecorationWhileEnabled ==
  Answering => \A i \in Indexes : ~Decorated(i)

\* C25: in SingleAnswer mode, from a state with an option selected, every
\* call on the instance other than a reset leaves exactly one option
\* selected.
C25_RadioStaysSelected ==
  [][(isSingleAnswer /\ ~NothingSelected /\ SameInstance
        /\ op' \notin {"resetSelections", "resetTask"})
       => Cardinality({i \in Indexes : selected'[i]}) = 1]_vars

\* A radio button chosen, replaced by another one, and the options disabled
C25_Witness ==
  /\ isSingleAnswer
  /\ op = "disableSelectables"
  /\ interacted >= 2
  /\ Cardinality({i \in Indexes : selected[i]}) = 1

\* C26: in SingleAnswer mode lastSelectedRadioButtonOption is null exactly
\* when no option is selected and is otherwise the one selected option,
\* so getScore() never calls isCorrect() on null.
C26_LastIsTheSelection ==
  isSingleAnswer
    => /\ lastSelectedRadioButtonOption = NoOption <=> NothingSelected
       /\ lastSelectedRadioButtonOption # NoOption
            => {i \in Indexes : selected[i]} = {lastSelectedRadioButtonOption}
       /\ getScore # TypeError

\* A radio button other than the first, chosen after an earlier choice
C26_Witness ==
  /\ isSingleAnswer
  /\ changed >= 2
  /\ op = "toggleSelected"
  /\ lastSelectedRadioButtonOption # NoOption
  /\ lastSelectedRadioButtonOption # 0
  /\ ~AllDisabled

\* C27: getMaxScore() is at least 1 for every configuration and every set
\* of options, so no quotient by getMaxScore() has a zero denominator.
C27_MaxScorePositive == getMaxScore >= 1

\* A MultiAnswer question without options and without singlePoint
C27_Witness ==
  /\ Indexes = {}
  /\ ~singlePoint
  /\ ~isSingleAnswer
  /\ op = "getScore"
  /\ getMaxScore = 1

\* The score of the checked attempt is the maximum
FullScore == Graded /\ answered[1].score = answered[1].maxScore

\* C28: a check shows try-again only with enableRetry set and a score
\* other than the maximum, show-solution only with enableSolutionsButton
\* set and such a score, and hides check-answer, which only resetTask()
\* shows again; so after a check with the maximum score neither
\* check-answer nor try-again is visible.
C28_ButtonsAfterCheck ==
  /\ [](/\ Graded => (/\ ~buttons["check-answer"]
                       /\ (buttons["try-again"] => ~FullScore)
                       /\ (buttons["show-solution"] => ~FullScore))
         /\ \A flag \in BOOLEAN :
              /\ checkAnswerButtons(buttons, flag, FALSE, 0, 1)["try-again"]
                   = buttons["try-again"]
              /\ checkAnswerButtons(buttons, FALSE, flag, 0, 1)["show-solution"]
                   = buttons["show-solution"])
  /\ [][/\ (op' = "checkAnswer" => ~buttons'["check-answer"])
         /\ (buttons'["check-answer"] /\ ~buttons["check-answer"])
              => op' = "resetTask"]_vars

\* A check of a selection that has the maximum score: no button is left
C28_Witness ==
  /\ op = "checkAnswer"
  /\ FullScore
  /\ ~NothingSelected
  /\ \A id \in ButtonIds : ~buttons[id]

\* C29 as stated: in SingleAnswer mode, while the options are enabled,
\* exactly one option has tabindex 0 and every other option tabindex -1.
C29_OneTabStop ==
  (isSingleAnswer /\ Answering)
    => /\ Cardinality({i \in Indexes : tabindex[i] = 0}) = 1
       /\ \A i \in Indexes : tabindex[i] \in {0, -1}

\* C30 as stated: from disableSelectables() to the next resetSelections(),
\* that is while the options are disabled, every option has tabindex -1,
\* whatever key events arrive in between.
C30_DisabledNotTabbable ==
  \A i \in Indexes : disabled[i] => tabindex[i] = -1


====
